---- MODULE Spec2Model ----
(***************************************************************************)
(* Model of scaffold.py: the create / delete / list / navigate commands   *)
(* of the project-folder manager, over an explicit directory tree.        *)
(*                                                                         *)
(* Strings are sequences of one-character strings, so that str.lower,     *)
(* str.startswith and the ordering used by sorted() are computed and not  *)
(* assumed.  A path is a sequence of segments.  The filesystem is a       *)
(* function from the paths that exist to their nodes.                     *)
(***************************************************************************)
EXTENDS Integers, Sequences, FiniteSets, TLC

VARIABLES
    fs,        \* the directory tree: existing path -> node
    platform,  \* "posix" or "nt": which permission rule os.unlink/os.rmdir follow
    last,      \* what the last command invocation was given, returned and printed
    ops,       \* number of command invocations so far
    procs      \* the concurrent create_project invocations of SpecRace

vars == <<fs, platform, last, ops, procs>>

----------------------------------------------------------------------------
(* Bounds of the model *)

\* command invocations in one behaviour of Spec
MaxOps == 2

----------------------------------------------------------------------------
(* Characters and strings *)

Lowers == <<"a","b","c","d","e","f","g","h","i","j","k","l","m",
            "n","o","p","q","r","s","t","u","v","w","x","y","z">>
Uppers == <<"A","B","C","D","E","F","G","H","I","J","K","L","M",
            "N","O","P","Q","R","S","T","U","V","W","X","Y","Z">>

IsLowerChar(c) == \E i \in 1..26 : Lowers[i] = c
IsUpperChar(c) == \E i \in 1..26 : Uppers[i] = c

\* code point of a character (ASCII)
Ord(c) ==
    IF IsLowerChar(c) THEN 96 + (CHOOSE i \in 1..26 : Lowers[i] = c)
    ELSE IF IsUpperChar(c) THEN 64 + (CHOOSE i \in 1..26 : Uppers[i] = c)
    ELSE IF c = "." THEN 46
    ELSE IF c = "~" THEN 126
    ELSE 0

LowerChar(c) ==
    IF IsUpperChar(c) THEN Lowers[CHOOSE i \in 1..26 : Uppers[i] = c] ELSE c

\* a lower() that folds no letter
LowerNoFold(s) == s
\* str.lower()
lower(s) == [i \in 1..Len(s) |-> LowerChar(s[i])]

\* str.startswith(prefix)
startswith(s, prefix) ==
    /\ Len(s) >= Len(prefix)
    /\ SubSeq(s, 1, Len(prefix)) = prefix

\* the order of str.__lt__: by code point, a proper prefix first
StrLess(a, b) ==
    \E i \in 1..(Len(b)) :
        /\ \A j \in 1..(i - 1) : j <= Len(a) /\ a[j] = b[j]
        /\ \/ i = Len(a) + 1
           \/ i <= Len(a) /\ Ord(a[i]) < Ord(b[i])

\* an order that ignores letter case
StrLessNoCase(a, b) == StrLess(lower(a), lower(b))
\* the comparison sorted() uses
StrLt(a, b) == StrLess(a, b)

RECURSIVE SortedSeq(_)
\* sorted(list) of distinct strings
SortedSeq(S) ==
    IF S = {} THEN <<>>
    ELSE LET m == CHOOSE x \in S : \A y \in S \ {x} : StrLt(x, y)
         IN  <<m>> \o SortedSeq(S \ {m})

str_y == <<"y">>
str_yes == <<"y","e","s">>
str_YES == <<"Y","E","S">>
str_n == <<"n">>
str_empty == <<>>

\* the inputs typed at a prompt
Answers == {str_y, str_YES, str_n, str_empty}

\* answer.lower() in ["y", "yes"]
Affirmative(answer) == lower(answer) \in {str_y, str_yes}

----------------------------------------------------------------------------
(* Names and paths *)

alpha == <<"a","l","p","h","a">>
Zeta == <<"Z","e","t","a">>
dotHidden == <<".","h","i","d","d","e","n">>
home == <<"h","o","m","e">>
HOME == <<"H","O","M","E">>
notes == <<"n","o","t","e","s">>

seg_venv == <<"v","e","n","v">>
seg_bin == <<"b","i","n">>
seg_activate == <<"a","c","t","i","v","a","t","e">>
seg_activate_sh == <<"a","c","t","i","v","a","t","e",".","s","h">>
seg_src == <<"s","r","c">>
seg_readme == <<"R","E","A","D","M","E">>

\* the names given to create and delete
Names == {alpha, Zeta, dotHidden, notes}
\* the names given to navigate
NavNames == Names \cup {home, HOME}

\* os.path.expanduser("~/Documents/Projects")
PROJECTS_DIR == << <<"~">>, <<"D","o","c","u","m","e","n","t","s">>,
                   <<"P","r","o","j","e","c","t","s">> >>

\* os.path.join(path, segment)
join(path, segment) == Append(path, segment)

Parent(p) == SubSeq(p, 1, Len(p) - 1)

NoPath == <<>>

----------------------------------------------------------------------------
(* Filesystem primitives *)

S_IRWXU == 448
S_IRWXG == 56
S_IRWXO == 7
\* 0o755: the mode given to activate.sh, and of a directory made under umask 022
MODE_0755 == 493
\* 0o644: a file made by open(..., "w") under umask 022
MODE_0644 == 6 * 64 + 4 * 8 + 4
\* 0o555 and 0o444: a read-only directory and a read-only file
MODE_0555 == 5 * 64 + 5 * 8 + 5
MODE_0444 == 4 * 64 + 4 * 8 + 4

\* the owner's write bit
Writable(mode) == (mode \div 128) % 2 = 1

DirNode(mode) == [kind |-> "dir", mode |-> mode, content |-> NoPath, immutable |-> FALSE]
FileNode(mode, content) ==
    [kind |-> "file", mode |-> mode, content |-> content, immutable |-> FALSE]
ImmutableFileNode(mode) ==
    [kind |-> "file", mode |-> mode, content |-> NoPath, immutable |-> TRUE]

\* os.path.exists / os.path.isdir
exists(f, p) == p \in DOMAIN f
isdir(f, p) == p \in DOMAIN f /\ f[p].kind = "dir"

\* the paths directly under p
Children(f, p) ==
    {q \in DOMAIN f : Len(q) = Len(p) + 1 /\ SubSeq(q, 1, Len(p)) = p}
\* os.listdir(p), as a set: the order is the filesystem's
listdir(f, p) == {q[Len(q)] : q \in Children(f, p)}

Put(f, p, node) == [q \in (DOMAIN f) \cup {p} |-> IF q = p THEN node ELSE f[q]]
Remove(f, p) == [q \in (DOMAIN f) \ {p} |-> f[q]]
\* os.chmod(p, mode)
chmod(f, p, mode) == [f EXCEPT ![p].mode = mode]

----------------------------------------------------------------------------
(* shutil.rmtree(project_path, onerror=handle_remove_readonly) *)

\* The error os.unlink(p) / os.rmdir(p) ends with, or "OK".  On posix the right
\* to remove an entry is the write bit of its parent directory; on nt it is the
\* entry's own read-only attribute.  An immutable entry gives EPERM.
removalErrno(f, plat, p) ==
    LET guard == IF plat = "posix" THEN f[Parent(p)].mode ELSE f[p].mode
    IN  IF ~Writable(guard) THEN "EACCES"
        ELSE IF f[p].immutable THEN "EPERM"
        ELSE "OK"

\* handle_remove_readonly(func, path, exc): chmod and one retry for EACCES of a
\* removal function, re-raise for anything else.  raised: the handler raised.
handle_remove_readonly(f, plat, func, p, err) ==
    IF func \in {"rmdir", "remove", "unlink"} /\ err = "EACCES"
    THEN LET g == chmod(f, p, S_IRWXU + S_IRWXG + S_IRWXO)
         IN  IF removalErrno(g, plat, p) = "OK"
             THEN [fs |-> Remove(g, p), raised |-> FALSE]
             ELSE [fs |-> g, raised |-> TRUE]
    ELSE [fs |-> f, raised |-> TRUE]

\* one os.unlink / os.rmdir of rmtree, with its onerror call
removeEntry(f, plat, func, p) ==
    LET err == removalErrno(f, plat, p)
    IN  IF err = "OK" THEN [fs |-> Remove(f, p), raised |-> FALSE]
        ELSE handle_remove_readonly(f, plat, func, p, err)

RECURSIVE rmtreeDir(_, _, _)
\* The outcomes of removing directory p and all below it: the entries are taken
\* in any order (os.scandir's), a raising handler aborts the walk where it is.
rmtreeDir(f, plat, p) ==
    LET kids == Children(f, p)
    IN  IF kids = {} THEN {removeEntry(f, plat, "rmdir", p)}
        ELSE UNION {
               LET rs == IF f[k].kind = "dir" THEN rmtreeDir(f, plat, k)
                         ELSE {removeEntry(f, plat, "unlink", k)}
               IN  UNION {IF r.raised THEN {r} ELSE rmtreeDir(r.fs, plat, p) : r \in rs}
               : k \in kids}

\* shutil.rmtree(p, onerror=...): a path that is no directory fails in
\* os.scandir with ENOTDIR, which the handler re-raises
rmtree(f, plat, p) ==
    IF f[p].kind # "dir" THEN {handle_remove_readonly(f, plat, "scandir", p, "ENOTDIR")}
    ELSE rmtreeDir(f, plat, p)

----------------------------------------------------------------------------
(* find_venv, validate_project_name, create_venv, create_project *)

ActivateUnder(dir) == join(join(join(dir, seg_venv), seg_bin), seg_activate)

\* find_venv(project_path): the values it may return (NoPath for None), one for
\* each order os.listdir may give.  raised: os.listdir raised (not a directory).
find_venv(f, project_path) ==
    IF exists(f, ActivateUnder(project_path))
    THEN {[raised |-> FALSE, path |-> ActivateUnder(project_path)]}
    ELSE IF ~isdir(f, project_path) THEN {[raised |-> TRUE, path |-> NoPath]}
    ELSE LET found == {ActivateUnder(join(project_path, item)) :
                         item \in {i \in listdir(f, project_path) :
                                     /\ isdir(f, join(project_path, i))
                                     /\ exists(f, ActivateUnder(join(project_path, i)))}}
         IN  IF found = {} THEN {[raised |-> FALSE, path |-> NoPath]}
             ELSE {[raised |-> FALSE, path |-> a] : a \in found}

\* a validation that finds every name available
validate_always(f, name) == TRUE
\* validate_project_name(name): the name is available
validate_project_name(f, name) == ~exists(f, join(PROJECTS_DIR, name))

\* os.makedirs(p) without exist_ok: an existing path raises FileExistsError
makedirs_strict(f, plat, p) ==
    IF exists(f, p) THEN [fs |-> f, raised |-> TRUE]
    ELSE IF plat = "posix" /\ ~Writable(f[Parent(p)].mode) THEN [fs |-> f, raised |-> TRUE]
    ELSE [fs |-> Put(f, p, DirNode(MODE_0755)), raised |-> FALSE]
\* os.makedirs(p, exist_ok=True) for p directly under an existing directory
makedirs(f, plat, p) ==
    IF exists(f, p)
    THEN [fs |-> f, raised |-> ~isdir(f, p)]
    ELSE IF plat = "posix" /\ ~Writable(f[Parent(p)].mode) THEN [fs |-> f, raised |-> TRUE]
    ELSE [fs |-> Put(f, p, DirNode(MODE_0755)), raised |-> FALSE]

\* how the bootstrap subprocess may end: exit 0 with the environment made, a
\* non-zero exit with nothing made, a non-zero exit after venv/bin was made
BootOutcomes == {"ok", "fail", "fail_partial"}
\* how writing activate.sh may end: written, or f.write() raised after open()
\* made the file
ShimOutcomes == {"ok", "write_err"}

PutIfAbsent(f, p, node) == IF exists(f, p) THEN f ELSE Put(f, p, node)

\* what subprocess.run([... "-m", "venv", ..., project_path/venv]) leaves on disk
bootstrap(f, project_path, boot) ==
    LET v == join(project_path, seg_venv)
        withDirs == PutIfAbsent(PutIfAbsent(f, v, DirNode(MODE_0755)),
                                join(v, seg_bin), DirNode(MODE_0755))
    IN  IF boot = "ok"
        THEN Put(withDirs, ActivateUnder(project_path), FileNode(MODE_0644, NoPath))
        ELSE IF boot = "fail_partial" THEN withDirs
        ELSE f

\* a create_venv that writes the shim whatever the bootstrap's exit status
create_venv_shim_always(f, project_path, boot, shim) ==
    LET g == bootstrap(f, project_path, boot)
        sh == join(project_path, seg_activate_sh)
    IN  [fs |-> Put(g, sh, FileNode(MODE_0755, ActivateUnder(project_path))),
         ret |-> boot = "ok", raised |-> FALSE]
\* create_venv(project_path): ret is its return value; raised: an exception
\* other than CalledProcessError left it
create_venv(f, project_path, boot, shim) ==
    LET g == bootstrap(f, project_path, boot)
        sh == join(project_path, seg_activate_sh)
    IN  IF boot # "ok" THEN [fs |-> g, ret |-> FALSE, raised |-> FALSE]
        ELSE IF shim = "write_err"
             THEN [fs |-> Put(g, sh, FileNode(MODE_0644, NoPath)),
                   ret |-> FALSE, raised |-> TRUE]
        ELSE [fs |-> Put(g, sh, FileNode(MODE_0755, ActivateUnder(project_path))),
              ret |-> TRUE, raised |-> FALSE]

\* a create_project whose except branch returns True
create_project_swallow(f, plat, name, env, boot, shim) ==
    IF ~validate_project_name(f, name) THEN [fs |-> f, ret |-> FALSE, booted |-> NoPath]
    ELSE LET project_path == join(PROJECTS_DIR, name)
             made == makedirs(f, plat, project_path)
         IN  IF made.raised THEN [fs |-> made.fs, ret |-> TRUE, booted |-> NoPath]
             ELSE IF env
                  THEN LET v == create_venv(made.fs, project_path, boot, shim)
                       IN  [fs |-> v.fs, ret |-> TRUE,
                            booted |-> join(project_path, seg_venv)]
                  ELSE [fs |-> made.fs, ret |-> TRUE, booted |-> NoPath]
\* create_project(name, env): ret is its return value, booted the target
\* directory the bootstrap subprocess was started with (NoPath: not started)
create_project(f, plat, name, env, boot, shim) ==
    IF ~validate_project_name(f, name) THEN [fs |-> f, ret |-> FALSE, booted |-> NoPath]
    ELSE LET project_path == join(PROJECTS_DIR, name)
             made == makedirs(f, plat, project_path)
         IN  IF made.raised THEN [fs |-> made.fs, ret |-> FALSE, booted |-> NoPath]
             ELSE IF env
                  THEN LET v == create_venv(made.fs, project_path, boot, shim)
                       IN  [fs |-> v.fs, ret |-> ~v.raised,
                            booted |-> join(project_path, seg_venv)]
                  ELSE [fs |-> made.fs, ret |-> TRUE, booted |-> NoPath]

----------------------------------------------------------------------------
(* delete_project, navigate_project, the list command *)

NoPrompts == <<>>
Prompt(question, answer) == [q |-> question, a |-> answer]
Signal(tag, path) == [tag |-> tag, path |-> path]

\* a delete_project that removes the tree whatever was answered
delete_project_unconfirmed(f, plat, name, confirm) ==
    LET project_path == join(PROJECTS_DIR, name)
    IN  IF ~exists(f, project_path)
        THEN {[fs |-> f, ret |-> FALSE, prompts |-> NoPrompts]}
        ELSE {[fs |-> r.fs, ret |-> ~r.raised,
               prompts |-> <<Prompt("delete", confirm)>>] :
                r \in rmtree(f, plat, project_path)}
\* delete_project(name) with `confirm` typed at its prompt: the outcomes, one
\* for each order rmtree may take.  ret is the return value.
delete_project(f, plat, name, confirm) ==
    LET project_path == join(PROJECTS_DIR, name)
    IN  IF ~exists(f, project_path)
        THEN {[fs |-> f, ret |-> FALSE, prompts |-> NoPrompts]}
        ELSE IF ~Affirmative(confirm)
        THEN {[fs |-> f, ret |-> FALSE, prompts |-> <<Prompt("delete", confirm)>>]}
        ELSE {[fs |-> r.fs, ret |-> ~r.raised,
               prompts |-> <<Prompt("delete", confirm)>>] :
                r \in rmtree(f, plat, project_path)}

\* navigate_project(name) with `create` and `env` typed at its prompts: the
\* outcomes.  code is the return value; raised: an exception left the function
\* (main's caller logs it and the process ends with status 0).
navigate_project(f, plat, name, create, env, boot, shim) ==
    LET project_path == join(PROJECTS_DIR, name)
        env_flag == Affirmative(env)
        asked1 == <<Prompt("create", create)>>
        asked2 == <<Prompt("create", create), Prompt("env", env)>>
        made == create_project(f, plat, name, env_flag, boot, shim)
    IN  IF lower(name) = home
        THEN {[fs |-> f, booted |-> NoPath, code |-> 0, raised |-> FALSE, prompts |-> NoPrompts,
               out |-> <<Signal("NAVIGATE_TO", PROJECTS_DIR)>>]}
        ELSE IF exists(f, project_path)
        THEN {IF v.raised
              THEN [fs |-> f, booted |-> NoPath, code |-> -1, raised |-> TRUE, prompts |-> NoPrompts,
                    out |-> <<>>]
              ELSE IF v.path # NoPath
              THEN [fs |-> f, booted |-> NoPath, code |-> 0, raised |-> FALSE, prompts |-> NoPrompts,
                    out |-> <<Signal("NAVIGATE_TO", project_path),
                              Signal("ACTIVATE_VENV", v.path)>>]
              ELSE [fs |-> f, booted |-> NoPath, code |-> 0, raised |-> FALSE, prompts |-> NoPrompts,
                    out |-> <<Signal("NAVIGATE_TO", project_path)>>]
              : v \in find_venv(f, project_path)}
        ELSE IF ~Affirmative(create)
        THEN {[fs |-> f, booted |-> NoPath, code |-> 2, raised |-> FALSE, prompts |-> asked1,
               out |-> <<>>]}
        ELSE IF made.ret
        THEN {[fs |-> made.fs, booted |-> made.booted, code |-> 1, raised |-> FALSE, prompts |-> asked2,
               out |-> IF env_flag
                       THEN <<Signal("NAVIGATE_TO", project_path),
                              Signal("ACTIVATE_VENV", ActivateUnder(project_path))>>
                       ELSE <<Signal("NAVIGATE_TO", project_path)>>]}
        ELSE {[fs |-> made.fs, booted |-> made.booted, code |-> 2, raised |-> FALSE, prompts |-> asked2,
               out |-> <<>>]}

\* the projects list of the list command: the unsorted names
projects(f) ==
    {d \in listdir(f, PROJECTS_DIR) :
        isdir(f, join(PROJECTS_DIR, d)) /\ ~startswith(d, <<".">>)}

HasVenv(f, project_path) == \E v \in find_venv(f, project_path) : v.path # NoPath

\* the lines the list command prints: one per project, in sorted order
listing(f) ==
    LET sorted == SortedSeq(projects(f))
    IN  [i \in 1..Len(sorted) |->
            [name |-> sorted[i], venv |-> HasVenv(f, join(PROJECTS_DIR, sorted[i]))]]

list_message(f) == IF projects(f) # {} THEN "Available projects:" ELSE "No projects found."

----------------------------------------------------------------------------
(* The trees the commands start from *)

Tree(entries) == [p \in {e[1] : e \in entries} |-> (CHOOSE e \in entries : e[1] = p)[2]]

Proj(name) == join(PROJECTS_DIR, name)

TreeEmpty == Tree({<<PROJECTS_DIR, DirNode(MODE_0755)>>})

\* two projects, a hidden directory and a plain file directly under the root
TreeListing ==
    Tree({<<PROJECTS_DIR, DirNode(MODE_0755)>>,
          <<Proj(alpha), DirNode(MODE_0755)>>,
          <<Proj(Zeta), DirNode(MODE_0755)>>,
          <<Proj(dotHidden), DirNode(MODE_0755)>>,
          <<Proj(notes), FileNode(MODE_0644, NoPath)>>})

\* a project with its environment and shim, and a project named "home"
TreeEnv ==
    Tree({<<PROJECTS_DIR, DirNode(MODE_0755)>>,
          <<Proj(home), DirNode(MODE_0755)>>,
          <<Proj(alpha), DirNode(MODE_0755)>>,
          <<join(Proj(alpha), seg_venv), DirNode(MODE_0755)>>,
          <<join(join(Proj(alpha), seg_venv), seg_bin), DirNode(MODE_0755)>>,
          <<ActivateUnder(Proj(alpha)), FileNode(MODE_0644, NoPath)>>,
          <<join(Proj(alpha), seg_activate_sh),
            FileNode(MODE_0755, ActivateUnder(Proj(alpha)))>>})

\* an environment one level down, and a project holding a read-only file
TreeNested ==
    Tree({<<PROJECTS_DIR, DirNode(MODE_0755)>>,
          <<Proj(alpha), DirNode(MODE_0755)>>,
          <<join(Proj(alpha), seg_src), DirNode(MODE_0755)>>,
          <<join(join(Proj(alpha), seg_src), seg_venv), DirNode(MODE_0755)>>,
          <<join(join(join(Proj(alpha), seg_src), seg_venv), seg_bin), DirNode(MODE_0755)>>,
          <<ActivateUnder(join(Proj(alpha), seg_src)), FileNode(MODE_0644, NoPath)>>,
          <<Proj(Zeta), DirNode(MODE_0755)>>,
          <<join(Proj(Zeta), seg_readme), FileNode(MODE_0444, NoPath)>>})

\* a project holding a read-only directory that is not empty
TreeReadOnlyDir ==
    Tree({<<PROJECTS_DIR, DirNode(MODE_0755)>>,
          <<Proj(alpha), DirNode(MODE_0755)>>,
          <<join(Proj(alpha), seg_readme), FileNode(MODE_0644, NoPath)>>,
          <<join(Proj(alpha), seg_src), DirNode(MODE_0555)>>,
          <<join(join(Proj(alpha), seg_src), seg_readme), FileNode(MODE_0644, NoPath)>>})

\* a project holding an immutable file
TreeImmutable ==
    Tree({<<PROJECTS_DIR, DirNode(MODE_0755)>>,
          <<Proj(alpha), DirNode(MODE_0755)>>,
          <<join(Proj(alpha), seg_readme), ImmutableFileNode(MODE_0644)>>})

\* a read-only root holding one project
TreeReadOnlyRoot ==
    Tree({<<PROJECTS_DIR, DirNode(MODE_0555)>>,
          <<Proj(alpha), DirNode(MODE_0755)>>})

InitTrees == {TreeEmpty, TreeListing, TreeEnv, TreeNested, TreeReadOnlyDir,
              TreeImmutable, TreeReadOnlyRoot}

\* Every tree under the posix rule; under the nt rule, which differs in what a
\* read-only attribute forbids, the trees that hold read-only entries.
InitStates ==
    {<<t, "posix">> : t \in InitTrees}
    \cup {<<t, "nt">> : t \in {TreeNested, TreeReadOnlyDir, TreeReadOnlyRoot}}

----------------------------------------------------------------------------
(* State machine: one command invocation per step *)

NoCall ==
    [cmd |-> "none", name |-> <<>>, env |-> FALSE, boot |-> "none", shim |-> "none",
     prompts |-> NoPrompts, ret |-> FALSE, code |-> -1, raised |-> FALSE, exit |-> 0,
     out |-> <<>>, listing |-> <<>>, msg |-> "", booted |-> NoPath,
     pre |-> <<>>, after |-> <<>>, afterRet |-> FALSE]

Idle == [pc |-> "idle", name |-> <<>>, env |-> FALSE, available |-> FALSE,
         shim |-> "none", ret |-> FALSE]

Init ==
    /\ \E st \in InitStates : fs = st[1] /\ platform = st[2]
    /\ last = NoCall
    /\ ops = 0
    /\ procs = [i \in {1, 2} |-> Idle]

\* what a call reads of its inputs: an input the call never reads is not varied
CreateBoots(f, plat, name, env) ==
    create_project(f, plat, name, env, "ok", "ok").booted # NoPath
DeleteAsks(f, plat, name) ==
    \E r \in delete_project(f, plat, name, str_empty) : r.prompts # NoPrompts
NavigateAsks(f, plat, name, create, n) ==
    \E r \in navigate_project(f, plat, name, create, str_empty, "ok", "ok") :
        Len(r.prompts) >= n
NavigateBoots(f, plat, name, create, env) ==
    \E r \in navigate_project(f, plat, name, create, env, "ok", "ok") :
        r.booted # NoPath

\* main: create <name> [--env]
CreateCmd ==
    /\ ops < MaxOps
    /\ \E name \in Names, env \in BOOLEAN :
       \E boot \in IF CreateBoots(fs, platform, name, env) THEN BootOutcomes ELSE {"none"} :
       \E shim \in IF boot = "ok" THEN ShimOutcomes ELSE {"none"} :
         LET r == create_project(fs, platform, name, env, boot, shim)
         IN  /\ fs' = r.fs
             /\ last' = [NoCall EXCEPT !.cmd = "create", !.name = name, !.env = env,
                           !.boot = boot, !.shim = shim,
                           !.ret = r.ret, !.booted = r.booted, !.pre = fs]
    /\ ops' = ops + 1
    /\ UNCHANGED <<platform, procs>>

\* main: delete <name>
DeleteCmd ==
    /\ ops < MaxOps
    /\ \E name \in Names :
       \E confirm \in IF DeleteAsks(fs, platform, name) THEN Answers ELSE {str_empty} :
       \E r \in delete_project(fs, platform, name, confirm) :
             /\ fs' = r.fs
             /\ last' = [NoCall EXCEPT !.cmd = "delete", !.name = name,
                           !.prompts = r.prompts, !.ret = r.ret, !.pre = fs]
    /\ ops' = ops + 1
    /\ UNCHANGED <<platform, procs>>

\* main: list
ListCmd ==
    /\ ops < MaxOps
    /\ last' = [NoCall EXCEPT !.cmd = "list", !.listing = listing(fs),
                  !.msg = list_message(fs), !.pre = fs,
                  !.after = IF last.cmd = "create" /\ ~exists(last.pre, Proj(last.name))
                            THEN last.name ELSE <<>>,
                  !.afterRet = last.cmd = "create" /\ last.ret]
    /\ ops' = ops + 1
    /\ UNCHANGED <<fs, platform, procs>>

\* main: navigate <name>; the process ends with navigate_project's return value
\* as its status, or with 0 when the exception handler of the script caught one
NavigateCmd ==
    /\ ops < MaxOps
    /\ \E name \in NavNames :
       \E create \in IF NavigateAsks(fs, platform, name, str_empty, 1)
                     THEN Answers ELSE {str_empty} :
       \E env \in IF NavigateAsks(fs, platform, name, create, 2)
                  THEN Answers ELSE {str_empty} :
       \E boot \in IF NavigateBoots(fs, platform, name, create, env)
                   THEN BootOutcomes ELSE {"none"} :
       \E shim \in IF boot = "ok" THEN ShimOutcomes ELSE {"none"} :
       \E r \in navigate_project(fs, platform, name, create, env, boot, shim) :
             /\ fs' = r.fs
             /\ last' = [NoCall EXCEPT !.cmd = "navigate", !.name = name,
                           !.env = Len(r.prompts) >= 2 /\ Affirmative(env),
                           !.boot = boot, !.shim = shim,
                           !.prompts = r.prompts, !.code = r.code, !.raised = r.raised,
                           !.exit = IF r.raised THEN 0 ELSE r.code,
                           !.out = r.out, !.booted = r.booted, !.pre = fs]
    /\ ops' = ops + 1
    /\ UNCHANGED <<platform, procs>>

Next == CreateCmd \/ DeleteCmd \/ ListCmd \/ NavigateCmd

Spec == Init /\ [][Next]_vars

----------------------------------------------------------------------------
(* Two concurrent `create` processes: create_project taken call by call *)

Procs == {1, 2}
RaceNames == {alpha, Zeta}

\* a process is started: create <name> [--env]
RaceCall(i) ==
    /\ procs[i].pc = "idle"
    /\ \E name \in RaceNames, env \in BOOLEAN :
         procs' = [procs EXCEPT ![i] = [Idle EXCEPT !.pc = "validate", !.name = name,
                                                     !.env = env]]
    /\ UNCHANGED <<fs, platform, last, ops>>

\* create_project: if not validate_project_name(name): ... return False
RaceValidate(i) ==
    /\ procs[i].pc = "validate"
    /\ procs' = [procs EXCEPT ![i] =
                   IF validate_project_name(fs, procs[i].name)
                   THEN [@ EXCEPT !.pc = "makedirs", !.available = TRUE]
                   ELSE [@ EXCEPT !.pc = "done", !.ret = FALSE]]
    /\ UNCHANGED <<fs, platform, last, ops>>

\* create_project: os.makedirs(project_path, exist_ok=True)
RaceMakedirs(i) ==
    /\ procs[i].pc = "makedirs"
    /\ LET made == makedirs(fs, platform, Proj(procs[i].name))
       IN  /\ fs' = made.fs
           /\ procs' = [procs EXCEPT ![i] =
                          IF made.raised THEN [@ EXCEPT !.pc = "done", !.ret = FALSE]
                          ELSE IF procs[i].env THEN [@ EXCEPT !.pc = "create_venv"]
                          ELSE [@ EXCEPT !.pc = "done", !.ret = TRUE]]
    /\ UNCHANGED <<platform, last, ops>>

\* create_project: create_venv(project_path); return True
RaceCreateVenv(i) ==
    /\ procs[i].pc = "create_venv"
    /\ \E boot \in BootOutcomes :
       \E shim \in IF boot = "ok" THEN ShimOutcomes ELSE {"none"} :
         LET v == create_venv(fs, Proj(procs[i].name), boot, shim)
         IN  /\ fs' = v.fs
             /\ procs' = [procs EXCEPT ![i] = [@ EXCEPT !.pc = "done", !.shim = shim,
                                                         !.ret = ~v.raised]]
    /\ UNCHANGED <<platform, last, ops>>

NextRace ==
    \E i \in Procs : RaceCall(i) \/ RaceValidate(i) \/ RaceMakedirs(i) \/ RaceCreateVenv(i)

SpecRace == Init /\ [][NextRace]_vars

----------------------------------------------------------------------------
(* Properties *)

\* the paths strictly below p
Under(f, p) == {q \in DOMAIN f : Len(q) > Len(p) /\ SubSeq(q, 1, Len(p)) = p}
\* p and everything below it, as it is on disk
Subtree(f, p) == [q \in {r \in DOMAIN f : r = p \/ r \in Under(f, p)} |-> f[q]]

LastPath == Proj(last.name)
ShimPath(project_path) == join(project_path, seg_activate_sh)

\* n is in the listing, after every smaller name and before every greater one
ListedAt(n, lst) ==
    \E i \in 1..Len(lst) :
        /\ lst[i].name = n
        /\ \A j \in 1..Len(lst) :
              /\ j < i => StrLess(lst[j].name, n)
              /\ j > i => StrLess(n, lst[j].name)

\* C1, as stated, a creation that reports failure set aside: whenever `create n`
\* ran for a name n not present under the root and reported success, and `list`
\* ran right after it, the listing holds n at its sorted position.
C1_CreateThenList ==
    (last.cmd = "list" /\ last.after # <<>> /\ last.afterRet)
    => ListedAt(last.after, last.listing)

\* C1, amended: whenever `create n` ran for a name n not present under the root
\* that does not begin with a dot, and reported success, and `list` ran right
\* after it, the listing holds n at its sorted position.
C1_CreateThenListAmended ==
    (/\ last.cmd = "list"
     /\ last.after # <<>>
     /\ last.afterRet
     /\ last.after[1] # ".")
    => ListedAt(last.after, last.listing)

\* C1 witness: a created name listed among at least two older projects
C1_Witness ==
    /\ last.cmd = "list"
    /\ last.after # <<>>
    /\ last.afterRet
    /\ last.after[1] # "."
    /\ Len(last.listing) >= 3
    /\ ListedAt(last.after, last.listing)

\* C2: `create n` for a name that exists under the root returns False and leaves
\* the tree as it was: nothing created, no bootstrap started, no shim written.
C2_CreateExisting ==
    (last.cmd = "create" /\ exists(last.pre, LastPath))
    => (/\ ~last.ret
        /\ fs = last.pre
        /\ last.booted = NoPath
        /\ ~exists(fs, ShimPath(LastPath)) \/ exists(last.pre, ShimPath(LastPath)))

\* C2 witness: create --env on an existing project directory
C2_Witness ==
    /\ last.cmd = "create"
    /\ last.env
    /\ isdir(last.pre, LastPath)
    /\ ~last.ret

\* C3: `delete n` on an existing project, answered with anything that is not
\* "y" or "yes" in some letter case, returns False and leaves the project
\* directory and all below it as they were.
C3_DeleteDeclined ==
    (/\ last.cmd = "delete"
     /\ exists(last.pre, LastPath)
     /\ \A p \in {str_y, str_yes} :
           \A i \in 1..Len(last.prompts) : lower(last.prompts[i].a) # p)
    => (/\ Len(last.prompts) = 1
        /\ ~last.ret
        /\ Subtree(fs, LastPath) = Subtree(last.pre, LastPath))

\* C3 witness: a project with contents, and the answer "n"
C3_Witness ==
    /\ last.cmd = "delete"
    /\ isdir(last.pre, LastPath)
    /\ Under(last.pre, LastPath) # {}
    /\ last.prompts = <<Prompt("delete", str_n)>>
    /\ ~last.ret

\* C4, as stated: a confirmed `delete n` of an existing project directory, in a
\* writable root and with no entry whose removal fails for a reason other than
\* permissions, returns True and leaves no ProjectRoot/n, read-only entries or not.
C4_DeleteConfirmed ==
    (/\ last.cmd = "delete"
     /\ isdir(last.pre, LastPath)
     /\ Len(last.prompts) = 1
     /\ lower(last.prompts[1].a) \in {str_y, str_yes}
     /\ Writable(last.pre[PROJECTS_DIR].mode)
     /\ \A q \in Under(last.pre, LastPath) : ~last.pre[q].immutable)
    => (last.ret /\ ~exists(fs, LastPath))

\* C5: `navigate home`, in any letter case, prints the one line
\* NAVIGATE_TO:<ProjectRoot>, asks nothing, changes nothing and returns 0.
C5_NavigateHome ==
    (last.cmd = "navigate" /\ last.name \in {home, HOME})
    => (/\ last.out = <<Signal("NAVIGATE_TO", PROJECTS_DIR)>>
        /\ last.prompts = NoPrompts
        /\ fs = last.pre
        /\ last.booted = NoPath
        /\ ~last.raised
        /\ last.code = 0
        /\ last.exit = 0)

\* C5 witness: `navigate HOME` where a project directory named "home" exists
C5_Witness ==
    /\ last.cmd = "navigate"
    /\ last.name = HOME
    /\ isdir(last.pre, Proj(home))
    /\ last.out = <<Signal("NAVIGATE_TO", PROJECTS_DIR)>>

NavigateLines(out) == {i \in 1..Len(out) : out[i].tag = "NAVIGATE_TO"}

\* C6, as stated: for a name other than "home", navigate returns 0 exactly when
\* ProjectRoot/name existed; returns 1 only when it did not exist, creation was
\* accepted and the directory was made; returns 2 otherwise; prints exactly one
\* NAVIGATE_TO line, for ProjectRoot/name, with 0 and 1 and no line with 2; and
\* a declined creation makes nothing and asks no second question.
C6_NavigateOutcome ==
    (last.cmd = "navigate" /\ last.name \notin {home, HOME})
    => LET existed == exists(last.pre, LastPath)
           accepted == Len(last.prompts) >= 1 /\ lower(last.prompts[1].a) \in {str_y, str_yes}
       IN  /\ ~last.raised
           /\ last.code \in {0, 1, 2}
           /\ last.code = 0 <=> existed
           /\ last.code = 1 => (~existed /\ accepted /\ isdir(fs, LastPath))
           /\ last.code \in {0, 1} =>
                 /\ Cardinality(NavigateLines(last.out)) = 1
                 /\ last.out[1] = Signal("NAVIGATE_TO", LastPath)
           /\ last.code = 2 => last.out = <<>>
           /\ (~existed /\ ~accepted) =>
                 (last.code = 2 /\ fs = last.pre /\ Len(last.prompts) = 1)

\* the directories directly under the root whose name has no leading dot
VisibleDirs(f) ==
    {q[Len(q)] : q \in {c \in Children(f, PROJECTS_DIR) :
                          f[c].kind = "dir" /\ c[Len(c)][1] # "."}}

\* C7: `list` prints exactly the names of the directories directly under the
\* root that do not begin with a dot, each once, in ascending code-point order;
\* prints "No projects found." exactly when there is none; changes nothing.
C7_List ==
    last.cmd = "list"
    => (/\ {last.listing[i].name : i \in 1..Len(last.listing)} = VisibleDirs(last.pre)
        /\ \A i, j \in 1..Len(last.listing) :
              i < j => StrLess(last.listing[i].name, last.listing[j].name)
        /\ last.msg = "No projects found." <=> last.listing = <<>>
        /\ ~last.raised
        /\ last.exit = 0
        /\ fs = last.pre)

\* C7 witness: two projects beside a hidden directory and a plain file
C7_Witness ==
    /\ last.cmd = "list"
    /\ isdir(last.pre, Proj(dotHidden))
    /\ exists(last.pre, Proj(notes)) /\ ~isdir(last.pre, Proj(notes))
    /\ Len(last.listing) = 2
    /\ last.listing[1].name = Zeta
    /\ last.listing[2].name = alpha

\* the shim is complete: a file of mode 0755 that sources the environment
ShimComplete(f, project_path) ==
    /\ exists(f, ShimPath(project_path))
    /\ f[ShimPath(project_path)] = FileNode(MODE_0755, ActivateUnder(project_path))

\* C8, as stated: `create n --env` for an absent n makes ProjectRoot/n and starts
\* the bootstrap with target ProjectRoot/n/venv; a failed bootstrap keeps the
\* directory, writes no activate.sh and still returns True; the complete
\* activate.sh exists afterwards exactly when the bootstrap succeeded.
C8_CreateWithEnv ==
    (last.cmd = "create" /\ last.env /\ ~exists(last.pre, LastPath))
    => (/\ isdir(fs, LastPath)
        /\ last.booted = join(LastPath, seg_venv)
        /\ last.boot # "ok" => (last.ret /\ ~exists(fs, ShimPath(LastPath)))
        /\ ShimComplete(fs, LastPath) <=> last.boot = "ok")

\* C8, amended: `create n --env` for an absent n either fails to make the
\* directory, and then returns False with nothing made and no bootstrap started,
\* or makes ProjectRoot/n and starts the bootstrap with target ProjectRoot/n/venv;
\* a failed bootstrap keeps the directory, writes no activate.sh and still
\* returns True; the complete activate.sh exists afterwards exactly when the
\* bootstrap succeeded and writing the shim did not raise; when writing the shim
\* raises, the directory is kept and create returns False.
C8_CreateWithEnvAmended ==
    (last.cmd = "create" /\ last.env /\ ~exists(last.pre, LastPath))
    => IF ~isdir(fs, LastPath)
       THEN ~last.ret /\ fs = last.pre /\ last.booted = NoPath
       ELSE /\ last.booted = join(LastPath, seg_venv)
            /\ last.boot # "ok" => (last.ret /\ ~exists(fs, ShimPath(LastPath)))
            /\ ShimComplete(fs, LastPath) <=> (last.boot = "ok" /\ last.shim = "ok")
            /\ last.ret <=> last.shim # "write_err"

\* C8 witness: the bootstrap failed, the directory is there, create returned True
C8_Witness ==
    /\ last.cmd = "create"
    /\ last.env
    /\ ~exists(last.pre, LastPath)
    /\ last.boot = "fail"
    /\ last.booted = join(LastPath, seg_venv)
    /\ isdir(fs, LastPath)
    /\ ~exists(fs, ShimPath(LastPath))
    /\ last.ret

\* C9: when two concurrent `create n` for the same name both found the name
\* available (neither had made the directory when the other checked), each of
\* them returns True once done, unless the root cannot be written to or its own
\* shim write raised.
C9_RaceBothSucceed ==
    \A i \in Procs : \A j \in Procs \ {i} :
        (/\ procs[i].pc = "done"
         /\ procs[i].available /\ procs[j].available
         /\ procs[i].name = procs[j].name
         /\ platform = "nt" \/ Writable(fs[PROJECTS_DIR].mode)
         /\ procs[i].shim # "write_err")
        => procs[i].ret

\* C9 witness: both passed the check for the same absent name, both returned True
C9_Witness ==
    /\ procs[1].pc = "done" /\ procs[2].pc = "done"
    /\ procs[1].name = procs[2].name
    /\ procs[1].available /\ procs[2].available
    /\ procs[1].ret /\ procs[2].ret
    /\ isdir(fs, Proj(procs[1].name))

\* C10, as stated: every ACTIVATE_VENV:<p> line navigate prints names a file p
\* that exists on disk when it is printed.
C10_ActivateExists ==
    last.cmd = "navigate"
    => \A i \in 1..Len(last.out) :
          last.out[i].tag = "ACTIVATE_VENV" =>
             (exists(fs, last.out[i].path) /\ fs[last.out[i].path].kind = "file")

====
